---- MODULE Spec2Model ----
(***************************************************************************)
(* The queue worker of the PostHog client (src/client/queue.rs): an        *)
(* unbounded mpsc channel of QueuedRequest envelopes, one background task  *)
(* that drains it with recv_many, folds fire-and-forget CaptureEvent       *)
(* bodies into one /batch call per drain cycle and dispatches every other  *)
(* envelope on its own, and the detached tasks of dispatch_request.        *)
(***************************************************************************)
EXTENDS Integers, Sequences, FiniteSets, TLC

VARIABLES
    senders,        \* number of live clones of QueueWorkerHandle.tx
    chan,           \* the unbounded channel: envelopes sent and not yet received
    pc,             \* where the spawned drain task stands
    buffer,         \* `buffer`: drained envelopes the for loop has not reached yet
    batch_capture,  \* `batch_capture`: bodies accumulated in this cycle
    cur,            \* the envelope whose handle_request the drain task awaits
    tasks,          \* the tasks spawned by dispatch_request
    calls,          \* history: every HTTP call issued, in issue order
    signals,        \* history: every send on a response channel
    dropped,        \* ids of envelopes whose caller dropped the oneshot receiver
    accepted,       \* history: envelopes the channel accepted, in send order
    rejected,       \* history: ids of envelopes whose send failed
    drained,        \* history: the envelopes recv_many returned in this cycle
    cycle,          \* history: number of drain cycles started
    nextId,         \* next fresh envelope id
    sends           \* history: number of send operations of the producers

vars == <<senders, chan, pc, buffer, batch_capture, cur, tasks, calls, signals,
          dropped, accepted, rejected, drained, cycle, nextId, sends>>

----------------------------------------------------------------------------
(* Bounds of the model *)

MaxEnq == 3
MaxHandles == 2
MaxBurst == 25
MaxBursts == 2
MaxOps == 2

(* Program constant *)
POSTHOG_BATCH_LIMIT == 20

----------------------------------------------------------------------------
(* JSON values.  A serde_json Value is modelled by the parts the worker    *)
(* reads: the "api_key" member (NoKey when the value has no string member  *)
(* of that name), a datum that tells one payload from another, and the     *)
(* "batch" member (a list of values).                                      *)

NoKey == "<none>"
Keys == {"k1", "k2"}

Null == [api_key |-> NoKey, data |-> 0, batch |-> <<>>]
Event(k, d) == [api_key |-> k, data |-> d, batch |-> <<>>]

(* PosthogRequest: the five variants, as records of one shape *)
CaptureEvent(body) ==
    [variant |-> "CaptureEvent", body |-> body, api_key |-> NoKey,
     method |-> "", endpoint |-> <<>>]
CaptureBatch(body) ==
    [variant |-> "CaptureBatch", body |-> body, api_key |-> NoKey,
     method |-> "", endpoint |-> <<>>]
EvaluateFeatureFlags(body) ==
    [variant |-> "EvaluateFeatureFlags", body |-> body, api_key |-> NoKey,
     method |-> "", endpoint |-> <<>>]
GetEarlyAccessFeatures(k) ==
    [variant |-> "GetEarlyAccessFeatures", body |-> Null, api_key |-> k,
     method |-> "", endpoint |-> <<>>]
Other(m, e, json) ==
    [variant |-> "Other", body |-> json, api_key |-> NoKey,
     method |-> m, endpoint |-> e]

(* QueuedRequest: a request and an optional response sender.  id names the *)
(* envelope in the histories; the program has no such field.               *)
QueuedRequest(id, req, tx) == [id |-> id, request |-> req, response_tx |-> tx]

----------------------------------------------------------------------------
(* handle_request: the HTTP call a request determines *)

Route(req) ==
    CASE req.variant = "CaptureEvent" ->
           [method |-> "POST", endpoint |-> <<"capture">>, body |-> req.body]
      [] req.variant = "CaptureBatch" ->
           [method |-> "POST", endpoint |-> <<"batch">>, body |-> req.body]
      [] req.variant = "EvaluateFeatureFlags" ->
           [method |-> "POST", endpoint |-> <<"decide?v=3">>, body |-> req.body]
      [] req.variant = "GetEarlyAccessFeatures" ->
           [method |-> "GET",
            endpoint |-> <<"api/early_access_features?api_key=", req.api_key>>,
            body |-> Null]
      [] OTHER ->
           [method |-> req.method, endpoint |-> req.endpoint, body |-> req.body]

(* send_request: what the remote end can do, and the Result it becomes *)
Outcomes == {"success_json", "success_not_json", "error_status", "transport_failure"}

(* one success and one failure: the failures differ only in the error the  *)
(* Err carries, which nothing in the worker reads                          *)
Replies == {"success_json", "error_status"}

(* faulty variant: the body is parsed whatever the status *)
send_requestAnyStatus(outcome) ==
    IF outcome \in {"success_json", "error_status"} THEN "Ok" ELSE "Err"

(* Err when the send fails, when the status is not a success and when the  *)
(* body of a success is not JSON; Ok with the parsed body otherwise        *)
send_request(outcome) == IF outcome = "success_json" THEN "Ok" ELSE "Err"

(* One entry of the call history.  src is "drain" for the background task  *)
(* and "immediate" for a dispatch_request task; env is the envelope's id,  *)
(* 0 for the batch request the drain loop builds itself.                   *)
Call(src, cyc, envelope) ==
    [src |-> src, cycle |-> cyc, env |-> envelope.id,
     method |-> Route(envelope.request).method,
     endpoint |-> Route(envelope.request).endpoint,
     body |-> Route(envelope.request).body,
     outcome |-> "pending", result |-> "pending"]

(* faulty variant: only a success is sent to the caller *)
RespondOnlyOk(envelope, res, idx) ==
    IF envelope.response_tx /\ res = "Ok"
    THEN Append(signals, [env |-> envelope.id, result |-> res, call |-> idx,
                          delivered |-> envelope.id \notin dropped])
    ELSE signals

(* faulty variant: the send is made whether or not the envelope has a sender *)
RespondAlways(envelope, res, idx) ==
    Append(signals, [env |-> envelope.id, result |-> res, call |-> idx,
                     delivered |-> envelope.id \notin dropped])

(* if let Some(response_tx) = .. { response_tx.send(response).ok(); }: one  *)
(* send when there is a sender; it reaches the caller unless the receiver  *)
(* was dropped, and its Err is ignored                                     *)
Respond(envelope, res, idx) ==
    IF envelope.response_tx
    THEN Append(signals, [env |-> envelope.id, result |-> res, call |-> idx,
                          delivered |-> envelope.id \notin dropped])
    ELSE signals

(* the call history once call i has returned with this outcome *)
Returned(i, outcome) ==
    [calls EXCEPT ![i].outcome = outcome, ![i].result = send_request(outcome)]

(* index in calls of the pending call of envelope id *)
PendingCall(id, src) ==
    CHOOSE i \in 1..Len(calls) :
        calls[i].env = id /\ calls[i].src = src /\ calls[i].result = "pending"

----------------------------------------------------------------------------
(* The drain loop of QueueWorkerHandle::start *)

Min(a, b) == IF a < b THEN a ELSE b

(* faulty variant: recv_many takes everything that is queued *)
TakeAll(n) == n

(* faulty variant: the limit is off by one *)
TakeOneMore(n) == Min(n, POSTHOG_BATCH_LIMIT + 1)

(* recv_many(&mut buffer, limit): how many of the n queued messages it takes *)
Take(n) == Min(n, POSTHOG_BATCH_LIMIT)

(* faulty variant: whatever has no response sender is accumulated *)
IsBatchableNoSender(envelope) == ~envelope.response_tx

(* faulty variant: the guard forgets response_tx.is_none() *)
IsBatchableAnyCapture(envelope) == envelope.request.variant = "CaptureEvent"

(* the guard of the first match arm *)
IsBatchable(envelope) ==
    envelope.request.variant = "CaptureEvent" /\ ~envelope.response_tx

(* faulty variant: the body is inserted at the front *)
pushFront(batch, body) == <<body>> \o batch

(* batch_capture.push(body) *)
push(batch, body) == Append(batch, body)

(* faulty variant: the key is taken from the last event *)
LastApiKey(batch) == batch[Len(batch)].api_key

(* batch_capture[0]["api_key"].as_str(): None when the member is missing *)
FirstApiKey(batch) == batch[1].api_key

(* json!({"api_key": api_key, "batch": batch_capture}) *)
BatchBody(batch) == [api_key |-> FirstApiKey(batch), data |-> 0, batch |-> batch]

(* the request the loop builds from the accumulator *)
BatchRequest(batch) == QueuedRequest(0, CaptureBatch(BatchBody(batch)), FALSE)

(* rx.recv_many(..).await returning x > 0 *)
RecvMany ==
    /\ pc = "recv"
    /\ Len(chan) > 0
    /\ buffer' = SubSeq(chan, 1, Take(Len(chan)))
    /\ chan' = SubSeq(chan, Take(Len(chan)) + 1, Len(chan))
    /\ drained' = buffer'
    /\ batch_capture' = <<>>
    /\ cycle' = cycle + 1
    /\ pc' = "for"
    /\ UNCHANGED <<senders, cur, tasks, calls, signals, dropped, accepted,
                   rejected, nextId, sends>>

(* recv_many returning 0: the channel is closed and empty; the task returns *)
RecvClosed ==
    /\ pc = "recv"
    /\ Len(chan) = 0
    /\ senders = 0
    /\ pc' = "done"
    /\ UNCHANGED <<senders, chan, buffer, batch_capture, cur, tasks, calls,
                   signals, dropped, accepted, rejected, drained, cycle, nextId, sends>>

(* first match arm: batch_capture.push(body) *)
Accumulate ==
    /\ pc = "for"
    /\ Len(buffer) > 0
    /\ IsBatchable(Head(buffer))
    /\ batch_capture' = push(batch_capture, Head(buffer).request.body)
    /\ buffer' = Tail(buffer)
    /\ UNCHANGED <<senders, chan, pc, cur, tasks, calls, signals, dropped,
                   accepted, rejected, drained, cycle, nextId, sends>>

(* faulty variant: the call is started and not awaited *)
DispatchOneDetached ==
    /\ pc = "for"
    /\ Len(buffer) > 0
    /\ ~IsBatchable(Head(buffer))
    /\ calls' = Append(calls, Call("drain", cycle, Head(buffer)))
    /\ buffer' = Tail(buffer)
    /\ UNCHANGED <<senders, chan, pc, cur, batch_capture, tasks, signals,
                   dropped, accepted, rejected, drained, cycle, nextId, sends>>

(* second match arm: worker.handle_request(request), up to its await *)
DispatchOne ==
    /\ pc = "for"
    /\ Len(buffer) > 0
    /\ ~IsBatchable(Head(buffer))
    /\ calls' = Append(calls, Call("drain", cycle, Head(buffer)))
    /\ cur' = <<Head(buffer)>>
    /\ buffer' = Tail(buffer)
    /\ pc' = "await_one"
    /\ UNCHANGED <<senders, chan, batch_capture, tasks, signals, dropped,
                   accepted, rejected, drained, cycle, nextId, sends>>

(* faulty variant: response_tx.send(response).unwrap(), which panics when  *)
(* the receiver was dropped                                                *)
OneCompletesUnwrap(outs) ==
    /\ pc = "await_one"
    /\ \E outcome \in outs :
         LET i == PendingCall(cur[1].id, "drain") IN
           /\ calls' = Returned(i, outcome)
           /\ signals' = Respond(cur[1], send_request(outcome), i)
    /\ cur' = <<>>
    /\ IF cur[1].response_tx /\ cur[1].id \in dropped
       THEN pc' = "panicked" /\ chan' = <<>>
       ELSE pc' = "for" /\ UNCHANGED chan
    /\ UNCHANGED <<senders, buffer, batch_capture, tasks, dropped, accepted,
                   rejected, drained, cycle, nextId, sends>>

(* faulty variant: the loop gives up on the call and goes on *)
OneAbandoned(outs) ==
    /\ pc = "await_one"
    /\ cur' = <<>>
    /\ pc' = "for"
    /\ UNCHANGED <<senders, chan, buffer, batch_capture, tasks, calls, signals,
                   dropped, accepted, rejected, drained, cycle, nextId, sends>>

(* the awaited send_request returns; handle_request signals and returns *)
OneCompletes(outs) ==
    /\ pc = "await_one"
    /\ \E outcome \in outs :
         LET i == PendingCall(cur[1].id, "drain") IN
           /\ calls' = Returned(i, outcome)
           /\ signals' = Respond(cur[1], send_request(outcome), i)
    /\ cur' = <<>>
    /\ pc' = "for"
    /\ UNCHANGED <<senders, chan, buffer, batch_capture, tasks, dropped,
                   accepted, rejected, drained, cycle, nextId, sends>>

(* faulty variant: the accumulator is flushed without the is_empty test *)
SendEmptyBatch ==
    /\ pc = "for"
    /\ Len(buffer) = 0
    /\ Len(batch_capture) = 0
    /\ calls' = Append(calls, Call("drain", cycle,
                   QueuedRequest(0, CaptureBatch(Null), FALSE)))
    /\ cur' = <<QueuedRequest(0, CaptureBatch(Null), FALSE)>>
    /\ pc' = "await_batch"
    /\ UNCHANGED <<senders, chan, buffer, batch_capture, tasks, signals,
                   dropped, accepted, rejected, drained, cycle, nextId, sends>>

(* end of the for loop with an empty accumulator: back to recv_many *)
SkipBatch ==
    /\ pc = "for"
    /\ Len(buffer) = 0
    /\ Len(batch_capture) = 0
    /\ pc' = "recv"
    /\ UNCHANGED <<senders, chan, buffer, batch_capture, cur, tasks, calls,
                   signals, dropped, accepted, rejected, drained, cycle, nextId, sends>>

(* end of the for loop, accumulator not empty, first event has an api_key: *)
(* the batch request is built and handle_request runs up to its await      *)
SendBatch ==
    /\ pc = "for"
    /\ Len(buffer) = 0
    /\ Len(batch_capture) > 0
    /\ FirstApiKey(batch_capture) # NoKey
    /\ calls' = Append(calls, Call("drain", cycle, BatchRequest(batch_capture)))
    /\ cur' = <<BatchRequest(batch_capture)>>
    /\ pc' = "await_batch"
    /\ UNCHANGED <<senders, chan, buffer, batch_capture, tasks, signals,
                   dropped, accepted, rejected, drained, cycle, nextId, sends>>

(* as_str().unwrap() on a first event without an api_key string: the task  *)
(* panics; its receiver is dropped, which closes the channel and drops the *)
(* messages still queued                                                   *)
UnwrapPanics ==
    /\ pc = "for"
    /\ Len(buffer) = 0
    /\ Len(batch_capture) > 0
    /\ FirstApiKey(batch_capture) = NoKey
    /\ pc' = "panicked"
    /\ chan' = <<>>
    /\ UNCHANGED <<senders, buffer, batch_capture, cur, tasks, calls, signals,
                   dropped, accepted, rejected, drained, cycle, nextId, sends>>

(* faulty variant: a failed /batch call is issued once more *)
BatchCompletesRetry(outs) ==
    /\ pc = "await_batch"
    /\ \E outcome \in outs :
         LET i == PendingCall(0, "drain")
             first == \A k \in 1..Len(calls) :
                         k # i => calls[k].env # 0 \/ calls[k].cycle # cycle
         IN  IF send_request(outcome) = "Err" /\ first
             THEN /\ calls' = Append(Returned(i, outcome),
                                     Call("drain", cycle, cur[1]))
                  /\ UNCHANGED <<cur, pc>>
             ELSE /\ calls' = Returned(i, outcome)
                  /\ cur' = <<>>
                  /\ pc' = "recv"
    /\ UNCHANGED <<senders, chan, buffer, batch_capture, tasks, signals,
                   dropped, accepted, rejected, drained, cycle, nextId, sends>>

(* the awaited /batch call returns; the loop starts over *)
BatchCompletes(outs) ==
    /\ pc = "await_batch"
    /\ \E outcome \in outs :
         LET i == PendingCall(0, "drain") IN
           /\ calls' = Returned(i, outcome)
           /\ signals' = Respond(cur[1], send_request(outcome), i)
    /\ cur' = <<>>
    /\ pc' = "recv"
    /\ UNCHANGED <<senders, chan, buffer, batch_capture, tasks, dropped,
                   accepted, rejected, drained, cycle, nextId, sends>>

----------------------------------------------------------------------------
(* dispatch_request: one detached task per envelope *)

(* faulty variant: the envelope is spawned and also put on the channel *)
DispatchRequestAlsoQueued(req, tx) ==
    /\ senders > 0
    /\ nextId <= MaxOps
    /\ tasks' = Append(tasks, [envelope |-> QueuedRequest(nextId, req, tx),
                               at |-> "spawned"])
    /\ chan' = Append(chan, QueuedRequest(nextId, req, tx))
    /\ accepted' = Append(accepted, QueuedRequest(nextId, req, tx))
    /\ nextId' = nextId + 1
    /\ UNCHANGED <<senders, pc, buffer, batch_capture, cur, calls, signals,
                   dropped, rejected, drained, cycle, sends>>

(* tokio::spawn of the task; the envelope moves into it *)
DispatchRequest(req, tx) ==
    /\ senders > 0
    /\ nextId <= MaxOps
    /\ tasks' = Append(tasks, [envelope |-> QueuedRequest(nextId, req, tx),
                               at |-> "spawned"])
    /\ nextId' = nextId + 1
    /\ UNCHANGED <<senders, chan, pc, buffer, batch_capture, cur, calls,
                   signals, dropped, accepted, rejected, drained, cycle, sends>>

(* the task runs handle_request up to the await of send_request *)
TaskSends(t) ==
    /\ tasks[t].at = "spawned"
    /\ calls' = Append(calls, Call("immediate", 0, tasks[t].envelope))
    /\ tasks' = [tasks EXCEPT ![t].at = "await"]
    /\ UNCHANGED <<senders, chan, pc, buffer, batch_capture, cur, signals,
                   dropped, accepted, rejected, drained, cycle, nextId, sends>>

(* its send_request returns; handle_request signals and the task ends *)
TaskCompletes(t) ==
    /\ tasks[t].at = "await"
    /\ \E outcome \in Outcomes :
         LET i == PendingCall(tasks[t].envelope.id, "immediate") IN
           /\ calls' = Returned(i, outcome)
           /\ signals' = Respond(tasks[t].envelope, send_request(outcome), i)
    /\ tasks' = [tasks EXCEPT ![t].at = "finished"]
    /\ UNCHANGED <<senders, chan, pc, buffer, batch_capture, cur, dropped,
                   accepted, rejected, drained, cycle, nextId, sends>>

----------------------------------------------------------------------------
(* The producers *)

(* the receiver of the channel is gone once the task returned or panicked *)
ReceiverGone == pc \in {"done", "panicked"}

(* faulty variant: the send also fails while the loop awaits an HTTP call *)
SendOnlyWhenIdle(envelope) ==
    /\ senders > 0
    /\ IF ReceiverGone \/ pc \in {"await_one", "await_batch"}
       THEN /\ rejected' = rejected \cup {envelope.id}
            /\ UNCHANGED <<chan, accepted>>
       ELSE /\ chan' = Append(chan, envelope)
            /\ accepted' = Append(accepted, envelope)
            /\ UNCHANGED rejected
    /\ nextId' = nextId + 1
    /\ sends' = sends + 1
    /\ UNCHANGED <<senders, pc, buffer, batch_capture, cur, tasks, calls,
                   signals, dropped, drained, cycle>>

(* tx.send(envelope) on a live handle: Err when the receiver is gone *)
Send(envelope) ==
    /\ senders > 0
    /\ IF ReceiverGone
       THEN /\ rejected' = rejected \cup {envelope.id}
            /\ UNCHANGED <<chan, accepted>>
       ELSE /\ chan' = Append(chan, envelope)
            /\ accepted' = Append(accepted, envelope)
            /\ UNCHANGED rejected
    /\ nextId' = nextId + 1
    /\ sends' = sends + 1
    /\ UNCHANGED <<senders, pc, buffer, batch_capture, cur, tasks, calls,
                   signals, dropped, drained, cycle>>

Enqueue(req, tx) ==
    /\ sends < MaxEnq
    /\ Send(QueuedRequest(nextId, req, tx))

(* the same, for producers that also use dispatch_request *)
EnqueueFew(req, tx) ==
    /\ nextId <= MaxOps
    /\ Send(QueuedRequest(nextId, req, tx))

(* QueueWorkerHandle is Clone: one more sender *)
CloneHandle ==
    /\ senders > 0
    /\ senders < MaxHandles
    /\ senders' = senders + 1
    /\ UNCHANGED <<chan, pc, buffer, batch_capture, cur, tasks, calls, signals,
                   dropped, accepted, rejected, drained, cycle, nextId, sends>>

(* a handle is dropped; the channel closes with the last one *)
DropHandle ==
    /\ senders > 0
    /\ senders' = senders - 1
    /\ UNCHANGED <<chan, pc, buffer, batch_capture, cur, tasks, calls, signals,
                   dropped, accepted, rejected, drained, cycle, nextId, sends>>

(* ids of the envelopes that carry a response sender not yet used *)
Waiting ==
    { id \in 1..(nextId - 1) :
        /\ \/ \E i \in 1..Len(accepted) :
                accepted[i].id = id /\ accepted[i].response_tx
           \/ \E t \in 1..Len(tasks) :
                tasks[t].envelope.id = id /\ tasks[t].envelope.response_tx
        /\ \A i \in 1..Len(signals) : signals[i].env # id }

(* a caller gives up and drops its oneshot receiver *)
DropReceiver(id) ==
    /\ id \in Waiting
    /\ id \notin dropped
    /\ dropped' = dropped \cup {id}
    /\ UNCHANGED <<senders, chan, pc, buffer, batch_capture, cur, tasks, calls,
                   signals, accepted, rejected, drained, cycle, nextId, sends>>

----------------------------------------------------------------------------
(* What producers send.  d is the datum that tells the payloads apart. *)

Inputs(d) ==
    {<<CaptureEvent(Event("k1", d)), FALSE>>,
     <<CaptureEvent(Event(NoKey, d)), FALSE>>,
     <<CaptureEvent(Event("k1", d)), TRUE>>,
     <<EvaluateFeatureFlags(Event("k1", d)), TRUE>>,
     <<CaptureBatch([api_key |-> "k1", data |-> d,
                     batch |-> <<Event("k1", d)>>]), FALSE>>}

Init ==
    /\ senders = 1
    /\ chan = <<>>
    /\ pc = "recv"
    /\ buffer = <<>>
    /\ batch_capture = <<>>
    /\ cur = <<>>
    /\ tasks = <<>>
    /\ calls = <<>>
    /\ signals = <<>>
    /\ dropped = {}
    /\ accepted = <<>>
    /\ rejected = {}
    /\ drained = <<>>
    /\ cycle = 0
    /\ nextId = 1
    /\ sends = 0

(* the drain task, its HTTP calls returning with an outcome of outs *)
WorkerWith(outs) ==
    \/ RecvMany
    \/ RecvClosed
    \/ Accumulate
    \/ DispatchOne
    \/ OneCompletes(outs)
    \/ SkipBatch
    \/ SendBatch
    \/ UnwrapPanics
    \/ BatchCompletes(outs)

Worker == WorkerWith(Replies)

Next ==
    \/ \E in \in Inputs(nextId) : Enqueue(in[1], in[2])
    \/ CloneHandle
    \/ DropHandle
    \/ Worker

Spec == Init /\ [][Next]_vars

----------------------------------------------------------------------------
(* A producer that sends n envelopes back to back (tx.send never suspends, *)
(* so a loop of sends on the worker's thread runs with no drain in         *)
(* between): fire-and-forget capture events, the first of them replaced as *)
(* `first` says by an awaited flag evaluation, by an event without         *)
(* api_key, or by a pre-assembled batch of more events than the cap.       *)

Firsts == {"event", "flags", "keyless", "batch"}

BigBatch(d) ==
    [api_key |-> "k1", data |-> d,
     batch |-> [i \in 1..(POSTHOG_BATCH_LIMIT + 1) |-> Event("k1", d)]]

BurstEnvelope(id, first) ==
    CASE id = nextId /\ first = "flags" ->
           QueuedRequest(id, EvaluateFeatureFlags(Event("k1", id)), TRUE)
      [] id = nextId /\ first = "keyless" ->
           QueuedRequest(id, CaptureEvent(Event(NoKey, id)), FALSE)
      [] id = nextId /\ first = "batch" ->
           QueuedRequest(id, CaptureBatch(BigBatch(id)), FALSE)
      [] OTHER ->
           QueuedRequest(id, CaptureEvent(Event("k1", id)), FALSE)

Burst(n, first) == [i \in 1..n |-> BurstEnvelope(nextId + i - 1, first)]

SendBurst(n, first) ==
    /\ senders > 0
    /\ sends < MaxBursts
    /\ nextId + n - 1 <= MaxBurst
    /\ IF ReceiverGone
       THEN /\ rejected' = rejected \cup {Burst(n, first)[i].id : i \in 1..n}
            /\ UNCHANGED <<chan, accepted>>
       ELSE /\ chan' = chan \o Burst(n, first)
            /\ accepted' = accepted \o Burst(n, first)
            /\ UNCHANGED rejected
    /\ nextId' = nextId + n
    /\ sends' = sends + 1
    /\ UNCHANGED <<senders, pc, buffer, batch_capture, cur, tasks, calls,
                   signals, dropped, drained, cycle>>

(* burst sizes: one event, the sizes around the cap, and the whole budget *)
BurstSizes ==
    {1, POSTHOG_BATCH_LIMIT - 1, POSTHOG_BATCH_LIMIT, POSTHOG_BATCH_LIMIT + 1,
     MaxBurst}

NextBurst ==
    \/ \E n \in BurstSizes, first \in Firsts : SendBurst(n, first)
    \/ DropHandle
    \/ Worker

SpecBurst == Init /\ [][NextBurst]_vars

----------------------------------------------------------------------------
(* Producers that also use dispatch_request *)

QueueInputs(d) ==
    {<<CaptureEvent(Event("k1", d)), FALSE>>,
     <<CaptureEvent(Event(NoKey, d)), FALSE>>,
     <<EvaluateFeatureFlags(Event("k1", d)), TRUE>>}

DispatchInputs(d) ==
    {<<CaptureEvent(Event("k1", d)), FALSE>>,
     <<EvaluateFeatureFlags(Event("k1", d)), TRUE>>}

NextDispatch ==
    \/ \E in \in QueueInputs(nextId) : EnqueueFew(in[1], in[2])
    \/ \E in \in DispatchInputs(nextId) : DispatchRequest(in[1], in[2])
    \/ \E t \in 1..Len(tasks) : TaskSends(t)
    \/ \E t \in 1..Len(tasks) : TaskCompletes(t)
    \/ DropHandle
    \/ WorkerWith(Outcomes)

SpecDispatch == Init /\ [][NextDispatch]_vars

----------------------------------------------------------------------------
(* Producers that enqueue every variant of PosthogRequest, with and        *)
(* without a response sender, events of either api_key and of none, a      *)
(* request of variant Other that posts to the capture endpoint             *)

SmallBatch(d) ==
    [api_key |-> "k1", data |-> d, batch |-> <<Event("k1", d)>>]

VariantInputs(d) ==
    {<<CaptureEvent(Event(k, d)), FALSE>> : k \in Keys \cup {NoKey}}
    \cup {<<CaptureEvent(Event("k1", d)), TRUE>>}
    \cup {<<req, tx>> :
            req \in {CaptureBatch(SmallBatch(d)),
                     EvaluateFeatureFlags(Event("k1", d)),
                     GetEarlyAccessFeatures("k1"),
                     Other("POST", <<"capture">>, Event("k1", d))},
            tx \in BOOLEAN}

NextVariants ==
    \/ \E in \in VariantInputs(nextId) : EnqueueFew(in[1], in[2])
    \/ DropHandle
    \/ Worker

SpecVariants == Init /\ [][NextVariants]_vars

----------------------------------------------------------------------------
(* Callers that may drop the receiver of an envelope not yet answered *)

CallerInputs(d) ==
    {<<CaptureEvent(Event("k1", d)), FALSE>>,
     <<CaptureEvent(Event(NoKey, d)), FALSE>>,
     <<CaptureEvent(Event("k1", d)), TRUE>>,
     <<EvaluateFeatureFlags(Event("k1", d)), TRUE>>}

NextCallers ==
    \/ \E in \in CallerInputs(nextId) : EnqueueFew(in[1], in[2])
    \/ \E id \in Waiting : DropReceiver(id)
    \/ DropHandle
    \/ Worker

SpecCallers == Init /\ [][NextCallers]_vars

(* The runtime keeps polling the spawned task, and every HTTP call the     *)
(* loop awaits returns.                                                    *)
FairSpec == Spec /\ WF_vars(Worker)

----------------------------------------------------------------------------
(* Vocabulary of the properties *)

Range(s) == {s[i] : i \in 1..Len(s)}

FireAndForgetCapture(e) ==
    e.request.variant = "CaptureEvent" /\ e.response_tx = FALSE

AwaitedCapture(e) ==
    e.request.variant = "CaptureEvent" /\ e.response_tx = TRUE

BodiesOf(seq) == [i \in 1..Len(seq) |-> seq[i].request.body]

(* the calls the drain loop issued for requests it built itself *)
Built == {i \in 1..Len(calls) : calls[i].src = "drain" /\ calls[i].env = 0}

BuiltInCycle == {i \in Built : calls[i].cycle = cycle}

(* the calls issued for the envelope with this id *)
CallsOf(id) == {i \in 1..Len(calls) : calls[i].env = id}

(* the drained envelopes the for loop has taken *)
Taken == SubSeq(drained, 1, Len(drained) - Len(buffer))

----------------------------------------------------------------------------
(* C1: the batch body the drain loop issues at the end of a cycle lists    *)
(* exactly the bodies of the fire-and-forget CaptureEvent envelopes        *)
(* drained in that cycle, in the order they were drained.                  *)
C1_BatchIsCycleEvents ==
    \A i \in BuiltInCycle :
        /\ calls[i].endpoint = <<"batch">>
        /\ calls[i].body.batch = BodiesOf(SelectSeq(drained, FireAndForgetCapture))

(* a batch of two events drained around an envelope that is not batchable *)
C1_Witness ==
    /\ BuiltInCycle # {}
    /\ Len(drained) = 3
    /\ FireAndForgetCapture(drained[1])
    /\ ~FireAndForgetCapture(drained[2])
    /\ FireAndForgetCapture(drained[3])

(* C2: a CaptureEvent envelope with a response channel is never put in the *)
(* accumulator, its body is in no /batch body, and once the loop has taken *)
(* it, it has one call of its own, POST /capture with its body.            *)
C2_AwaitedCaptureNotBatched ==
    \A e \in Range(accepted) :
        AwaitedCapture(e) =>
            /\ e.request.body \notin Range(batch_capture)
            /\ \A i \in 1..Len(calls) :
                   calls[i].endpoint = <<"batch">> =>
                       e.request.body \notin Range(calls[i].body.batch)
            /\ e \in Range(Taken) =>
                   /\ Cardinality(CallsOf(e.id)) = 1
                   /\ \A i \in CallsOf(e.id) :
                          /\ calls[i].src = "drain"
                          /\ calls[i].method = "POST"
                          /\ calls[i].endpoint = <<"capture">>
                          /\ calls[i].body = e.request.body

(* an awaited capture drained with a batchable one, the batch issued *)
C2_Witness ==
    /\ BuiltInCycle # {}
    /\ \E e \in Range(drained) :
           AwaitedCapture(e) /\ CallsOf(e.id) # {}

(* in how many calls the envelope was sent: calls of its own, and places   *)
(* in the batch bodies the drain loop built                                *)
TimesSent(e) ==
    Cardinality(CallsOf(e.id))
      + Cardinality({<<i, j>> \in Built \X (1..POSTHOG_BATCH_LIMIT) :
                       /\ j <= Len(calls[i].body.batch)
                       /\ calls[i].body.batch[j] = e.request.body})

(* C3: when the worker has terminated, every envelope the channel accepted *)
(* was sent in exactly one HTTP call, its own or one batch.                *)
C3_EveryEnvelopeSentOnce ==
    pc \in {"done", "panicked"} =>
        \A e \in Range(accepted) : TimesSent(e) = 1

(* What holds of C3 on every path: no envelope is ever sent twice, and at  *)
(* the return of the task (recv_many yielding 0) every one was sent once.  *)
SentAtMostOnce == \A e \in Range(accepted) : TimesSent(e) <= 1

AllSentAtReturn == pc = "done" => \A e \in Range(accepted) : TimesSent(e) = 1

(* C4: once every sender is dropped, the worker drains the channel and     *)
(* returns from recv_many yielding 0.                                      *)
C4_ClosedChannelTerminates ==
    (senders = 0) ~> (pc = "done" /\ chan = <<>>)

(* What holds of C4 on every path: the task ends, by return or by panic.   *)
ClosedChannelEndsTask == (senders = 0) ~> (pc \in {"done", "panicked"})

(* every envelope handed to the worker, through the channel or through     *)
(* dispatch_request                                                        *)
Handed == Range(accepted) \cup {tasks[t].envelope : t \in 1..Len(tasks)}

SignalsOf(id) == {j \in 1..Len(signals) : signals[j].env = id}

IsSuffix(s, t) ==
    /\ Len(s) <= Len(t)
    /\ s = SubSeq(t, Len(t) - Len(s) + 1, Len(t))

IsPrefix(s, t) ==
    /\ Len(s) <= Len(t)
    /\ s = SubSeq(t, 1, Len(s))

(* what one cycle drained and what is still queued are, together, the last *)
(* envelopes the channel accepted: nothing that was not drained is lost    *)
RestStaysQueued == pc # "panicked" => IsSuffix(drained \o chan, accepted)

(* C6 as stated: a cycle drains at most POSTHOG_BATCH_LIMIT envelopes, the *)
(* rest stay queued, and no /batch body at all has more events than that.  *)
C6_NoBatchBodyOverLimit ==
    /\ Len(drained) <= POSTHOG_BATCH_LIMIT
    /\ RestStaysQueued
    /\ \A i \in 1..Len(calls) :
           calls[i].endpoint = <<"batch">> =>
               Len(calls[i].body.batch) <= POSTHOG_BATCH_LIMIT

(* C6, amended: a cycle drains at most POSTHOG_BATCH_LIMIT envelopes, the  *)
(* rest stay queued, and no /batch body the drain loop builds from a       *)
(* cycle's accumulator has more events than that.                          *)
C6_DrainCapped ==
    /\ Len(drained) <= POSTHOG_BATCH_LIMIT
    /\ RestStaysQueued
    /\ \A i \in Built : Len(calls[i].body.batch) <= POSTHOG_BATCH_LIMIT

(* a full cycle: the cap drained and batched while more was queued *)
C6_Witness ==
    /\ Len(drained) = POSTHOG_BATCH_LIMIT
    /\ Len(chan) > 0
    /\ \E i \in BuiltInCycle : Len(calls[i].body.batch) = POSTHOG_BATCH_LIMIT

IsBuilt(c) == c.src = "drain" /\ c.env = 0

RECURSIVE Flatten(_)
Flatten(cs) ==
    IF cs = <<>> THEN <<>> ELSE Head(cs).body.batch \o Flatten(Tail(cs))

(* the events of the batches the drain loop built, in issue order *)
BatchedSoFar == Flatten(SelectSeq(calls, IsBuilt))

Quiescent == pc \in {"recv", "done"} /\ chan = <<>>

(* C7: the batches of successive cycles carry the fire-and-forget capture  *)
(* events in enqueue order, each batch only events of its own cycle; once  *)
(* the queue is worked off they carry all of them, in at least two batches *)
(* when there are more events than the cap.                                *)
C7_BatchesSplitInOrder ==
    LET events == BodiesOf(SelectSeq(accepted, FireAndForgetCapture)) IN
    /\ IsPrefix(BatchedSoFar, events)
    /\ \A i, j \in Built : i < j => calls[i].cycle < calls[j].cycle
    /\ \A i \in BuiltInCycle :
           Range(calls[i].body.batch) \subseteq Range(BodiesOf(drained))
    /\ Quiescent =>
           /\ BatchedSoFar = events
           /\ Len(events) > POSTHOG_BATCH_LIMIT => Cardinality(Built) >= 2

(* 25 events sent back to back: a batch of 20, then a batch of 5 *)
C7_Witness ==
    /\ Quiescent
    /\ sends = 1
    /\ Len(accepted) = POSTHOG_BATCH_LIMIT + 5
    /\ \A e \in Range(accepted) : FireAndForgetCapture(e)
    /\ Len(SelectSeq(calls, IsBuilt)) = 2
    /\ Len(SelectSeq(calls, IsBuilt)[1].body.batch) = POSTHOG_BATCH_LIMIT
    /\ Len(SelectSeq(calls, IsBuilt)[2].body.batch) = 5

(* the calls the drain loop issued in the current cycle *)
InCycle(c) == c.src = "drain" /\ c.cycle = cycle

OwnInCycle(c) == InCycle(c) /\ c.env # 0

NotBatchable(e) == ~FireAndForgetCapture(e)

C9_IndividualsInOrderThenBatch ==
    LET own == SelectSeq(calls, OwnInCycle)
        taken == SelectSeq(Taken, NotBatchable)
    IN  /\ Len(own) = Len(taken)
        /\ \A k \in 1..Len(own) :
               /\ own[k].env = taken[k].id
               /\ k < Len(own) => own[k].result # "pending"
        /\ Cardinality(BuiltInCycle) <= 1
        /\ \A i \in BuiltInCycle :
               /\ buffer = <<>>
               /\ \A k \in 1..Len(own) : own[k].result # "pending"
               /\ \A j \in 1..Len(calls) : OwnInCycle(calls[j]) => j < i

(* a batchable event drained ahead of two envelopes that are not *)
C9_Witness ==
    /\ BuiltInCycle # {}
    /\ Len(drained) = 3
    /\ FireAndForgetCapture(drained[1])
    /\ NotBatchable(drained[2])
    /\ NotBatchable(drained[3])

AwaitedFlags(e) ==
    e.request.variant = "EvaluateFeatureFlags" /\ e.response_tx = TRUE

(* C10: an awaited EvaluateFeatureFlags envelope drained with              *)
(* fire-and-forget capture events has one call of its own, POST            *)
(* /decide?v=3; the events go in the one batch of the cycle; and when that *)
(* batch is issued the flag caller has already been signalled, whatever    *)
(* becomes of the batch call.                                              *)
C10_FlagsAnsweredBeforeBatch ==
    /\ \A e \in Range(Taken) :
           AwaitedFlags(e) =>
               /\ Cardinality(CallsOf(e.id)) = 1
               /\ \A i \in CallsOf(e.id) :
                      /\ calls[i].method = "POST"
                      /\ calls[i].endpoint = <<"decide?v=3">>
                      /\ calls[i].body = e.request.body
    /\ \A i \in BuiltInCycle :
           /\ Len(calls[i].body.batch)
                = Len(SelectSeq(drained, FireAndForgetCapture))
           /\ \A e \in Range(drained) :
                  AwaitedFlags(e) =>
                      \E j \in SignalsOf(e.id) :
                          /\ signals[j].delivered
                          /\ signals[j].call < i

(* the flag caller holds its answer while the batch of two events is still *)
(* in flight                                                               *)
C10_Witness ==
    \E i \in BuiltInCycle :
        /\ calls[i].result = "pending"
        /\ Len(calls[i].body.batch) = 2
        /\ \E e \in Range(drained) : AwaitedFlags(e) /\ SignalsOf(e.id) # {}

----------------------------------------------------------------------------
(* the call has returned and was not a success with a JSON body *)
Failed(i) == calls[i].outcome \in Outcomes \ {"success_json"}

----------------------------------------------------------------------------
(* the spawned task has ended, by returning or by unwinding *)
Stopped == pc \in {"done", "panicked"}

(* C12: the background task ends only when the channel is closed and       *)
(* empty: while a sender handle exists or an envelope is still queued the  *)
(* task has not stopped, whatever the bodies of the envelopes.             *)
C12_RunsUntilClosedAndEmpty ==
    Stopped => senders = 0 /\ chan = <<>>

(* What holds of C12: the task returns only from recv_many reporting a     *)
(* closed and empty channel.                                               *)
ReturnsOnlyWhenClosedAndEmpty ==
    pc = "done" => senders = 0 /\ chan = <<>>

----------------------------------------------------------------------------
(* the ids of the envelopes the channel took *)
AcceptedIds == {accepted[i].id : i \in 1..Len(accepted)}

(* a handle can enqueue one more envelope now and the channel takes it *)
CanEnqueue ==
    ENABLED (\E in \in Inputs(nextId) :
                /\ Enqueue(in[1], in[2])
                /\ Len(accepted') = Len(accepted) + 1)

(* C13: while the task runs, suspended on an HTTP call or not, a handle    *)
(* can enqueue at once and the channel takes the envelope; a send has      *)
(* failed only when the task had stopped, and the envelope it returned to  *)
(* the caller is in no queue, no HTTP call and no signal.                  *)
C13_EnqueueFailsOnlyAfterShutdown ==
    /\ (senders > 0 /\ sends < MaxEnq /\ ~Stopped) => CanEnqueue
    /\ rejected # {} => Stopped
    /\ \A id \in 1..(nextId - 1) : id \in rejected <=> id \notin AcceptedIds
    /\ \A id \in rejected :
         /\ CallsOf(id) = {}
         /\ SignalsOf(id) = {}
         /\ \A i \in 1..Len(chan) : chan[i].id # id

(* two envelopes taken while the task ran, a call of the loop returned,    *)
(* and a third envelope refused after the task had stopped                 *)
C13_Witness ==
    /\ rejected # {}
    /\ Len(accepted) = 2
    /\ \E i \in 1..Len(calls) : calls[i].result # "pending"

----------------------------------------------------------------------------
(* the calls of the drain loop that have been issued and not yet returned *)
InFlight ==
    {i \in 1..Len(calls) : calls[i].src = "drain" /\ calls[i].result = "pending"}

(* C14: at most one HTTP call of the drain loop is in flight: when a call  *)
(* of the loop is issued, every earlier one, /batch or individual, has     *)
(* returned, and the loop is suspended on the one that is in flight.       *)
C14_OneDrainCallInFlight ==
    /\ Cardinality(InFlight) <= 1
    /\ \A i \in InFlight :
         /\ \A j \in 1..Len(calls) : calls[j].src = "drain" => j <= i
         /\ pc = (IF IsBuilt(calls[i]) THEN "await_batch" ELSE "await_one")
    /\ pc \in {"await_one", "await_batch"} => InFlight # {}

(* the /batch call of a cycle in flight after an individual call of the    *)
(* same cycle and the /batch call of the cycle before have returned        *)
C14_Witness ==
    /\ pc = "await_batch"
    /\ \E i \in 1..Len(calls) :
         /\ ~IsBuilt(calls[i])
         /\ calls[i].cycle = cycle
         /\ calls[i].result # "pending"
    /\ \E i \in Built : calls[i].cycle < cycle /\ calls[i].result # "pending"

----------------------------------------------------------------------------
(* C15: an envelope given to dispatch_request is sent by a task of its own *)
(* in one HTTP call that carries its own route and body, issued when the   *)
(* task first runs and never repeated; the envelope is never on the        *)
(* inbound channel and its body is in no batch the loop builds, also when  *)
(* it is a CaptureEvent without response channel.                          *)
C15_DispatchedOnItsOwn ==
    \A t \in 1..Len(tasks) :
        LET e == tasks[t].envelope IN
          /\ e.id \notin AcceptedIds \cup rejected
          /\ \A i \in 1..Len(chan) : chan[i].id # e.id
          /\ Cardinality(CallsOf(e.id)) = (IF tasks[t].at = "spawned" THEN 0 ELSE 1)
          /\ \A i \in CallsOf(e.id) :
               /\ calls[i].src = "immediate"
               /\ calls[i].method = Route(e.request).method
               /\ calls[i].endpoint = Route(e.request).endpoint
               /\ calls[i].body = e.request.body
               /\ (calls[i].result = "pending") = (tasks[t].at = "await")
          /\ \A i \in Built : e.request.body \notin Range(calls[i].body.batch)
          /\ e.request.body \notin Range(batch_capture)

(* a fire-and-forget CaptureEvent given to dispatch_request after the      *)
(* drain loop had issued a call, sent as POST /capture and completed while *)
(* the loop is still suspended on that call                                *)
C15_Witness ==
    /\ pc \in {"await_one", "await_batch"}
    /\ \E t \in 1..Len(tasks), d \in InFlight :
         /\ FireAndForgetCapture(tasks[t].envelope)
         /\ tasks[t].at = "finished"
         /\ \E i \in CallsOf(tasks[t].envelope.id) :
              i > d /\ calls[i].endpoint = <<"capture">>

----------------------------------------------------------------------------
(* the position of the drain loop and everything it has taken or built *)
LoopState == <<pc, buffer, batch_capture, cur, drained, cycle>>

DrainCalls == {i \in 1..Len(calls) : calls[i].src = "drain"}

(* the individual calls the drain loop has issued that have not returned *)
PendingIndividual == {i \in InFlight : ~IsBuilt(calls[i])}

(* dispatch_request can be called and every spawned task can issue its call *)
DispatchStillWorks ==
    /\ (senders > 0 /\ nextId <= MaxOps) =>
         ENABLED (\E in \in DispatchInputs(nextId) :
                     DispatchRequest(in[1], in[2]))
    /\ \A t \in 1..Len(tasks) :
         tasks[t].at = "spawned" => ENABLED TaskSends(t)

(* C16: for as long as an individual call of the drain loop has not        *)
(* returned, the loop does nothing: no step dispatches another envelope,   *)
(* accumulates one, issues a /batch call or drains the channel; in the     *)
(* meantime dispatch_request takes envelopes and their tasks issue calls.  *)
C16_LoopWaitsForItsCall ==
    /\ [](PendingIndividual # {} => DispatchStillWorks)
    /\ [][\A d \in PendingIndividual :
            calls'[d].result = "pending" =>
              /\ UNCHANGED LoopState
              /\ DrainCalls' = DrainCalls
              /\ Len(chan') >= Len(chan)]_vars

(* the loop is suspended on the call of a drained envelope while an        *)
(* awaited envelope given to dispatch_request afterwards has been sent and *)
(* answered                                                                *)
C16_Witness ==
    /\ pc = "await_one"
    /\ \E d \in PendingIndividual, t \in 1..Len(tasks) :
         /\ tasks[t].envelope.response_tx
         /\ \E j \in SignalsOf(tasks[t].envelope.id) : signals[j].call > d

----------------------------------------------------------------------------
(* C17: every batch the loop builds carries the api_key of its first       *)
(* event, whatever the keys of the events after it, and goes out as one    *)
(* POST /batch per cycle whose result is signalled to nobody.              *)
C17_BatchKeyIsFirstEvents ==
    /\ \A i \in Built :
         /\ calls[i].body.api_key = calls[i].body.batch[1].api_key
         /\ calls[i].body.api_key \in Keys
         /\ calls[i].method = "POST"
         /\ calls[i].endpoint = <<"batch">>
         /\ \A j \in 1..Len(signals) : signals[j].call # i
         /\ \A k \in Built : calls[k].cycle = calls[i].cycle => k = i
    /\ pc = "await_batch" =>
         \E i \in BuiltInCycle : calls[i].body.batch = batch_capture

(* a batch of an event of key k2 followed by an event of key k1, sent and  *)
(* returned under the key k2                                               *)
C17_Witness ==
    \E i \in Built :
        /\ Len(calls[i].body.batch) = 2
        /\ calls[i].body.batch[1].api_key = "k2"
        /\ calls[i].body.batch[2].api_key = "k1"
        /\ calls[i].body.api_key = "k2"
        /\ calls[i].result # "pending"

----------------------------------------------------------------------------
OtherVariant(e) == e.request.variant # "CaptureEvent"

(* the bodies in the accumulator and in the batches the loop has built *)
Accumulated ==
    Range(batch_capture) \cup UNION {Range(calls[i].body.batch) : i \in Built}

(* C18: whatever is accumulated is the body of a CaptureEvent envelope     *)
(* without response channel.  An envelope of another variant, with or      *)
(* without a response channel, gets one call of the drain loop with its    *)
(* own route and body once the loop has taken it; neither its body nor,    *)
(* for a CaptureBatch, an event of its body is in a batch the loop builds. *)
C18_OnlyPlainCapturesAccumulated ==
    /\ \A body \in Accumulated :
         \E e \in Range(accepted) :
             FireAndForgetCapture(e) /\ e.request.body = body
    /\ \A e \in Range(accepted) :
         OtherVariant(e) =>
           /\ ({e.request.body} \cup Range(e.request.body.batch))
                  \cap Accumulated = {}
           /\ Cardinality(CallsOf(e.id)) <= 1
           /\ e \in Range(Taken) => CallsOf(e.id) # {}
           /\ \A i \in CallsOf(e.id) :
                /\ calls[i].src = "drain"
                /\ calls[i].method = Route(e.request).method
                /\ calls[i].endpoint = Route(e.request).endpoint
                /\ calls[i].body = Route(e.request).body

(* a CaptureBatch without response channel drained in one cycle with a     *)
(* plain capture event: its own POST /batch has returned and the batch the *)
(* loop built holds the one event                                          *)
C18_Witness ==
    \E e \in Range(drained) :
        /\ e.request.variant = "CaptureBatch"
        /\ ~e.response_tx
        /\ \E i \in CallsOf(e.id) : calls[i].result # "pending"
        /\ \E i \in BuiltInCycle : Len(calls[i].body.batch) = 1

----------------------------------------------------------------------------
(* the body is sent in no call but call i *)
OnlyIn(body, i) ==
    \A k \in 1..Len(calls) :
        k # i => calls[k].body # body /\ body \notin Range(calls[k].body.batch)

----------------------------------------------------------------------------
(* the accepted envelopes whose receiver the caller has dropped *)
Abandoned == {e \in Range(accepted) : e.id \in dropped}

(* C20: an envelope whose receiver was dropped before the worker answered  *)
(* still gets its one HTTP call; the send on its response channel is made  *)
(* once, reaches nobody, and its failure changes nothing: the loop goes on *)
(* to the rest of the buffer, with the accumulator and the channel as they *)
(* were.                                                                   *)
C20_DroppedReceiverIgnored ==
    /\ [](\A e \in Abandoned :
            /\ Cardinality(CallsOf(e.id)) <= 1
            /\ e \in Range(Taken) => CallsOf(e.id) # {}
            /\ Cardinality(SignalsOf(e.id)) <= 1
            /\ \A j \in SignalsOf(e.id) :
                 /\ ~signals[j].delivered
                 /\ signals[j].call \in CallsOf(e.id)
            /\ \A i \in CallsOf(e.id) :
                 calls[i].result # "pending" => SignalsOf(e.id) # {})
    /\ [][\A i \in InFlight :
            (calls'[i].result # "pending" /\ calls[i].env \in dropped) =>
              /\ pc' = "for"
              /\ UNCHANGED <<buffer, batch_capture, chan, dropped>>]_vars

(* the receiver of the first of two envelopes of a cycle was dropped       *)
(* before its call returned; the send reached nobody and the second        *)
(* envelope of the cycle has been sent after it                            *)
C20_Witness ==
    \E e \in Abandoned :
        /\ \E j \in SignalsOf(e.id) : ~signals[j].delivered
        /\ \E k \in DrainCalls :
             /\ calls[k].cycle = cycle
             /\ \A i \in CallsOf(e.id) : calls[i].cycle = cycle /\ k > i

============================================================================
